---- MODULE Spec2Model ----
(***************************************************************************)
(* Packet protocol and command dispatch of the Alex robot.                 *)
(*                                                                         *)
(* Device side (src/Alex/Alex.ino, src/unnamed/part_003, part_004,         *)
(* src/Alex/colour.ino): setup(), the main loop(), handlePacket,           *)
(* handleCommand, the senders, the encoder-tick ISRs, the motion           *)
(* routines, and waitForHello.                                             *)
(* Operator side (src/computer/tls-alex-client.cpp): handleStatus.         *)
(*                                                                         *)
(* A frame read from the serial port is modelled by the result readPacket  *)
(* returns for it (PACKET_OK, PACKET_BAD, PACKET_CHECKSUM_BAD or           *)
(* PACKET_INCOMPLETE) together with the decoded packet.                    *)
(***************************************************************************)
EXTENDS Integers, Sequences, FiniteSets, TLC

VARIABLES
    pc,          \* position of the device program
    dir,         \* volatile TDirection dir
    cnt,         \* the tick / revolution / distance counters
    deltaDist, newDist, deltaTicks, targetTicks,
    recv,        \* the frame held by the current loop() / waitForHello iteration
    out,         \* what this iteration wrote to the serial port and which
                 \* collaborators it called, in order
    stat,        \* statusPacket.params while sendStatus fills it
    snap,        \* the counters at the moment sendStatus was invoked
    exit,        \* waitForHello's exit flag
    rx,          \* frames still to arrive while waitForHello runs
    ticks,       \* number of encoder interrupts so far
    \* operator console (tls-alex-client.cpp)
    networkActive,  \* static volatile int networkActive
    transport,      \* the TLS connection: "open" or "closed" by the peer
    rpc,            \* position of readerThread
    rlen,           \* readerThread's len
    rbuf,           \* readerThread's buffer: the kind of the frame it holds
    rendered,       \* what handleNetwork printed for the last read
    wpc,            \* position of writerThread
    ch,             \* the key writerThread read
    quit,           \* writerThread's quit
    wbuf,           \* the command frame writerThread built
    wlen,           \* the byte count sendData passed to sslWrite
    wc,             \* sendData's c, the result of sslWrite
    stopped,        \* the threads that called stopClient
    argc,           \* main's ac; 0 while main has not run
    usage,          \* 1 once main printed the usage message
    exitStatus,     \* the statuses main passed to exit(): none or one
    av,             \* main's av[1] and av[2], the latter as its decimal digits
    peer,           \* the server name and port createClient was given
    \* serial link of the device (readPacket, sendResponse)
    wire,           \* bytes written by writeSerial, not yet at the receiver
    serial,         \* bytes Serial.available() reports, oldest first
    stored,         \* bytes the last readSerial stored into readPacket's buffer
    acc,            \* bytes deserialize holds of the frame being assembled
    sent,           \* the packets handed to sendResponse, in order
    got,            \* the packets readPacket returned with PACKET_OK, in order
    res             \* the result of the last readPacket

vars == <<pc, dir, cnt, deltaDist, newDist, deltaTicks, targetTicks,
          recv, out, stat, snap, exit, rx, ticks>>

cvars == <<networkActive, transport, rpc, rlen, rbuf, rendered,
           wpc, ch, quit, wbuf, wlen, wc, stopped>>

mvars == <<argc, usage, exitStatus, av, peer>>

svars == <<wire, serial, stored, acc, sent, got, res>>

\* main() has not run
MainIdle == argc = 0 /\ usage = 0 /\ exitStatus = {} /\ av = <<>> /\ peer = <<>>

\* nothing written to or read from the serial port yet
SerialIdle ==
    /\ wire = <<>> /\ serial = <<>> /\ stored = 0 /\ acc = <<>>
    /\ sent = <<>> /\ got = <<>> /\ res = "none"

\* the console before main() runs
ClientIdle ==
    /\ networkActive = 0
    /\ transport = "open"
    /\ rpc = "idle" /\ rlen = 0 /\ rbuf = "none" /\ rendered = "none"
    /\ wpc = "idle" /\ ch = "none" /\ quit = 0
    /\ wbuf = <<>> /\ wlen = 0 /\ wc = 0
    /\ stopped = {}

(***************************************************************************)
(* Bounds of the model.                                                    *)
(***************************************************************************)
MaxTicks == 3        \* encoder interrupts in one run
MaxRx == 3           \* frames queued for waitForHello
MoveDist == 4        \* the non-zero distance of a forward / reverse command
TurnAng == 18        \* the non-zero angle of a turn command
SmallAng == 1        \* a non-zero angle worth less than one encoder tick
ClearWhich == 5      \* a non-zero params[0] of COMMAND_CLEAR_STATS
MovePower == 50      \* the power of a movement command
SensorDist == 12     \* a non-zero ultrasonic reading
SensorFreq == 2      \* largest colour-channel reading

(***************************************************************************)
(* Program constants.                                                      *)
(***************************************************************************)
COUNTS_PER_REV == 4
WHEEL_CIRC == 18
UNBOUNDED_TARGET == 9999999
\* alexCirc = PI * sqrt(ALEX_LENGTH^2 + ALEX_BREADTH^2) = 92.4018..., in 1/10000
ALEX_CIRC_E4 == 924018

(***************************************************************************)
(* Packets.  params holds the slots the sender assigned: slot i of the     *)
(* source is params[i+1]; a slot beyond Len(params) was never assigned.    *)
(***************************************************************************)
Packet(t, c, p) == [packetType |-> t, command |-> c, params |-> p]

NoPacket == Packet("none", "none", <<>>)

\* the case labels of handleCommand
CommandCodes ==
    {"COMMAND_FORWARD", "COMMAND_REVERSE", "COMMAND_TURN_RIGHT",
     "COMMAND_TURN_LEFT", "COMMAND_STOP", "COMMAND_GET_STATS",
     "COMMAND_CLEAR_STATS", "COMMAND_GRAB", "COMMAND_COLOUR",
     "COMMAND_ULTRASONIC", "COMMAND_RELEASE", "COMMAND_MED"}

\* code bytes that are no case label of handleCommand
UndefinedCodes == {"UNDEFINED_CODE_A", "UNDEFINED_CODE_B"}

\* the case labels of handlePacket
PacketTypes ==
    {"PACKET_TYPE_COMMAND", "PACKET_TYPE_RESPONSE", "PACKET_TYPE_ERROR",
     "PACKET_TYPE_MESSAGE", "PACKET_TYPE_HELLO"}

Frame(r, p) == [result |-> r, packet |-> p]

NoFrame == Frame("none", NoPacket)

\* readSerial returned 0 bytes, or deserialize wants more bytes
IncompleteFrame == Frame("PACKET_INCOMPLETE", NoPacket)

\* the parameters an arriving COMMAND packet carries in slots 0 and 1
CommandParams(c) ==
    IF c \in {"COMMAND_FORWARD", "COMMAND_REVERSE"}
    THEN {<<0, MovePower>>, <<MoveDist, MovePower>>}
    ELSE IF c \in {"COMMAND_TURN_LEFT", "COMMAND_TURN_RIGHT"}
    THEN {<<0, MovePower>>, <<TurnAng, MovePower>>}
    ELSE IF c = "COMMAND_CLEAR_STATS"
    THEN {<<0, 0>>, <<ClearWhich, 0>>}
    ELSE {<<0, 0>>}

CommandFrames ==
    UNION {{Frame("PACKET_OK", Packet("PACKET_TYPE_COMMAND", c, p)) :
                p \in CommandParams(c)} : c \in CommandCodes \cup UndefinedCodes}

\* successfully decoded packets that are no command
OtherFrames ==
    {Frame("PACKET_OK", Packet(t, "none", <<>>)) :
        t \in (PacketTypes \ {"PACKET_TYPE_COMMAND"}) \cup {"PACKET_TYPE_OTHER"}}

ErrorFrames ==
    {Frame("PACKET_BAD", NoPacket), Frame("PACKET_CHECKSUM_BAD", NoPacket)}

\* every outcome of one readPacket call in loop()
Frames == CommandFrames \cup OtherFrames \cup ErrorFrames \cup {IncompleteFrame}

(***************************************************************************)
(* What an iteration does, in order: packets handed to sendResponse and    *)
(* calls of actuation / query collaborators.                               *)
(***************************************************************************)
Send(p) == [ev |-> "send", fn |-> "sendResponse", pkt |-> p, args |-> <<>>]

Call(f, a) == [ev |-> "call", fn |-> f, pkt |-> NoPacket, args |-> a]

sendOK == Send(Packet("PACKET_TYPE_RESPONSE", "RESP_OK", <<>>))

sendBadPacket == Send(Packet("PACKET_TYPE_ERROR", "RESP_BAD_PACKET", <<>>))

sendBadChecksum == Send(Packet("PACKET_TYPE_ERROR", "RESP_BAD_CHECKSUM", <<>>))

sendBadCommand == Send(Packet("PACKET_TYPE_ERROR", "RESP_BAD_COMMAND", <<>>))

sendBadResponse == Send(Packet("PACKET_TYPE_ERROR", "RESP_BAD_RESPONSE", <<>>))

\* a variant of sendDist: the packet carries the colour response code
sendDist_ColourCode(distance) ==
    Send(Packet("PACKET_TYPE_RESPONSE", "RESP_COLOUR", <<distance>>))

sendDist(distance) ==
    Send(Packet("PACKET_TYPE_RESPONSE", "RESP_ULTRASONIC", <<distance>>))

\* readColour: three channel readings, then the index evaluateColour picks
\* (0, 1 or 2); s = <<red, green, blue, index>>
readColour(s) == Send(Packet("PACKET_TYPE_RESPONSE", "RESP_COLOUR", s))

\* what the sensors can return to a query
ColourReadings ==
    {<<r, SensorFreq, 1, i>> : r \in {1, SensorFreq}, i \in 0..2}

UltrasonicReadings == {<<0>>, <<SensorDist>>}

SensorInputs(f) ==
    IF f.result = "PACKET_OK" /\ f.packet.packetType = "PACKET_TYPE_COMMAND"
    THEN CASE f.packet.command = "COMMAND_COLOUR" -> ColourReadings
           [] f.packet.command = "COMMAND_ULTRASONIC" -> UltrasonicReadings
           [] OTHER -> {<<>>}
    ELSE {<<>>}

(***************************************************************************)
(* Counters.                                                               *)
(***************************************************************************)
TickCounters ==
    {"leftForwardTicks", "rightForwardTicks", "leftReverseTicks",
     "rightReverseTicks", "leftForwardTicksTurns", "rightForwardTicksTurns",
     "leftReverseTicksTurns", "rightReverseTicksTurns"}

Counters == TickCounters \cup {"leftRevs", "rightRevs", "forwardDist", "reverseDist"}

clearCounters == [n \in Counters |-> 0]

Bump(c, names) == [n \in Counters |-> IF n \in names THEN c[n] + 1 ELSE c[n]]

\* (unsigned long) ((float) t / COUNTS_PER_REV * WHEEL_CIRC)
TicksToDist(t) == (t * WHEEL_CIRC) \div COUNTS_PER_REV

leftISR(c, d) ==
    LET c1 == CASE d = "FORWARD"  -> Bump(c, {"leftForwardTicks"})
                [] d = "BACKWARD" -> Bump(c, {"leftReverseTicks"})
                [] d = "LEFT"     -> Bump(c, {"leftReverseTicksTurns"})
                [] d = "RIGHT"    -> Bump(c, {"leftForwardTicksTurns"})
                [] OTHER          -> c
    IN  IF d = "FORWARD"
        THEN [c1 EXCEPT !.forwardDist = TicksToDist(c1.leftForwardTicks)]
        ELSE IF d = "BACKWARD"
        THEN [c1 EXCEPT !.reverseDist = TicksToDist(c1.leftReverseTicks)]
        ELSE c1

\* the cases of rightISR have no break: each falls through to the next
rightISR(c, d) ==
    CASE d = "FORWARD"  -> Bump(c, {"rightForwardTicks", "rightReverseTicks",
                                    "rightForwardTicksTurns", "rightReverseTicksTurns"})
      [] d = "BACKWARD" -> Bump(c, {"rightReverseTicks", "rightForwardTicksTurns",
                                    "rightReverseTicksTurns"})
      [] d = "LEFT"     -> Bump(c, {"rightForwardTicksTurns", "rightReverseTicksTurns"})
      [] d = "RIGHT"    -> Bump(c, {"rightReverseTicksTurns"})
      [] OTHER          -> c

(***************************************************************************)
(* Motion routines.  m is the motion state [dir, deltaDist, newDist,       *)
(* deltaTicks, targetTicks], c the counters.                               *)
(***************************************************************************)
Motion == [dir |-> dir, deltaDist |-> deltaDist, newDist |-> newDist,
           deltaTicks |-> deltaTicks, targetTicks |-> targetTicks]

\* (unsigned long) ((ang * alexCirc * COUNTS_PER_REV) / (360.0 * WHEEL_CIRC))
computeDeltaTicks(ang) ==
    (ang * ALEX_CIRC_E4 * COUNTS_PER_REV) \div (360 * WHEEL_CIRC * 10000)

forward(m, c, dist) ==
    LET dd == IF dist > 0 THEN dist ELSE UNBOUNDED_TARGET
    IN  [m EXCEPT !.deltaDist = dd, !.newDist = c.forwardDist + dd,
                  !.dir = "FORWARD"]

reverse(m, c, dist) ==
    LET dd == IF dist > 0 THEN dist ELSE UNBOUNDED_TARGET
    IN  [m EXCEPT !.deltaDist = dd, !.newDist = c.reverseDist + dd,
                  !.dir = "BACKWARD"]

left(m, c, ang) ==
    LET dt == IF ang = 0 THEN UNBOUNDED_TARGET ELSE computeDeltaTicks(ang)
    IN  [m EXCEPT !.deltaTicks = dt,
                  !.targetTicks = c.leftReverseTicksTurns + dt,
                  !.dir = "LEFT"]

\* a variant of right: an angle of 0 is not replaced by the sentinel
right_NoSentinel(m, c, ang) ==
    LET dt == computeDeltaTicks(ang)
    IN  [m EXCEPT !.deltaTicks = dt,
                  !.targetTicks = c.rightReverseTicksTurns + dt,
                  !.dir = "RIGHT"]

right(m, c, ang) ==
    LET dt == IF ang = 0 THEN UNBOUNDED_TARGET ELSE computeDeltaTicks(ang)
    IN  [m EXCEPT !.deltaTicks = dt,
                  !.targetTicks = c.rightReverseTicksTurns + dt,
                  !.dir = "RIGHT"]

stop(m) == [m EXCEPT !.dir = "STOP"]

(***************************************************************************)
(* handleCommand, by what it sends and calls, what it does to the motion   *)
(* state and what it does to the counters.  p is the COMMAND packet, s the *)
(* reading a queried sensor returns.                                       *)
(***************************************************************************)
\* a variant of handleCommandCase: COMMAND_STOP stops before it acknowledges
handleCommandCase_StopBeforeOK(p, s) ==
    LET c == p.command
        a == p.params
    IN  CASE c = "COMMAND_FORWARD"     -> <<sendOK, Call("forward", a)>>
          [] c = "COMMAND_REVERSE"     -> <<sendOK, Call("reverse", a)>>
          [] c = "COMMAND_TURN_RIGHT"  -> <<sendOK, Call("right", a)>>
          [] c = "COMMAND_TURN_LEFT"   -> <<sendOK, Call("left", a)>>
          [] c = "COMMAND_STOP"        -> <<Call("stop", <<>>), sendOK>>
          [] c = "COMMAND_GET_STATS"   -> <<sendOK, Call("sendStatus", <<>>)>>
          [] c = "COMMAND_CLEAR_STATS" -> <<sendOK, Call("clearOneCounter", <<a[1]>>)>>
          [] c = "COMMAND_GRAB"        -> <<sendOK, Call("grab", <<>>)>>
          [] c = "COMMAND_COLOUR"      ->
                <<sendOK, Call("readColour", <<>>), readColour(s)>>
          [] c = "COMMAND_ULTRASONIC"  ->
                <<sendOK, Call("readUltrasonic", <<>>), sendDist(s[1])>>
          [] c = "COMMAND_RELEASE"     -> <<sendOK, Call("release_arm", <<>>)>>
          [] c = "COMMAND_MED"         -> <<sendOK, Call("medpack", <<>>)>>

\* the twelve cases of the switch
handleCommandCase(p, s) ==
    LET c == p.command
        a == p.params
    IN  CASE c = "COMMAND_FORWARD"     -> <<sendOK, Call("forward", a)>>
          [] c = "COMMAND_REVERSE"     -> <<sendOK, Call("reverse", a)>>
          [] c = "COMMAND_TURN_RIGHT"  -> <<sendOK, Call("right", a)>>
          [] c = "COMMAND_TURN_LEFT"   -> <<sendOK, Call("left", a)>>
          [] c = "COMMAND_STOP"        -> <<sendOK, Call("stop", <<>>)>>
          \* sendStatus goes on in StatusCopy and StatusSend
          [] c = "COMMAND_GET_STATS"   -> <<sendOK, Call("sendStatus", <<>>)>>
          [] c = "COMMAND_CLEAR_STATS" -> <<sendOK, Call("clearOneCounter", <<a[1]>>)>>
          [] c = "COMMAND_GRAB"        -> <<sendOK, Call("grab", <<>>)>>
          [] c = "COMMAND_COLOUR"      ->
                <<sendOK, Call("readColour", <<>>), readColour(s)>>
          [] c = "COMMAND_ULTRASONIC"  ->
                <<sendOK, Call("readUltrasonic", <<>>), sendDist(s[1])>>
          [] c = "COMMAND_RELEASE"     -> <<sendOK, Call("release_arm", <<>>)>>
          [] c = "COMMAND_MED"         -> <<sendOK, Call("medpack", <<>>)>>

\* a variant of handleCommandEvents: the default branch does nothing
handleCommandEvents_SilentDefault(p, s) ==
    IF p.command \in CommandCodes THEN handleCommandCase(p, s) ELSE <<>>

\* the switch: a case label, or default
handleCommandEvents(p, s) ==
    IF p.command \in CommandCodes THEN handleCommandCase(p, s)
    ELSE <<sendBadCommand>>

\* a variant of handleCommandMotion: the default branch stops the motors
handleCommandMotion_DefaultStops(p, m, c) ==
    CASE p.command = "COMMAND_FORWARD"    -> forward(m, c, p.params[1])
      [] p.command = "COMMAND_REVERSE"    -> reverse(m, c, p.params[1])
      [] p.command = "COMMAND_TURN_RIGHT" -> right(m, c, p.params[1])
      [] p.command = "COMMAND_TURN_LEFT"  -> left(m, c, p.params[1])
      [] p.command \in CommandCodes \ {"COMMAND_STOP"} -> m
      [] OTHER                            -> stop(m)

\* a variant of handleCommandMotion: COMMAND_CLEAR_STATS also drops the targets
handleCommandMotion_ClearDropsTargets(p, m, c) ==
    CASE p.command = "COMMAND_FORWARD"    -> forward(m, c, p.params[1])
      [] p.command = "COMMAND_REVERSE"    -> reverse(m, c, p.params[1])
      [] p.command = "COMMAND_TURN_RIGHT" -> right(m, c, p.params[1])
      [] p.command = "COMMAND_TURN_LEFT"  -> left(m, c, p.params[1])
      [] p.command = "COMMAND_STOP"       -> stop(m)
      [] p.command = "COMMAND_CLEAR_STATS" ->
            [m EXCEPT !.deltaDist = 0, !.newDist = 0,
                      !.deltaTicks = 0, !.targetTicks = 0]
      [] OTHER                            -> m

handleCommandMotion(p, m, c) ==
    CASE p.command = "COMMAND_FORWARD"    -> forward(m, c, p.params[1])
      [] p.command = "COMMAND_REVERSE"    -> reverse(m, c, p.params[1])
      [] p.command = "COMMAND_TURN_RIGHT" -> right(m, c, p.params[1])
      [] p.command = "COMMAND_TURN_LEFT"  -> left(m, c, p.params[1])
      [] p.command = "COMMAND_STOP"       -> stop(m)
      [] OTHER                            -> m

\* a variant of handleCommandCounters: clearOneCounter clears the counter
\* params[0] selects, and everything only for 0
handleCommandCounters_OneCounter(p, c) ==
    IF p.command = "COMMAND_CLEAR_STATS"
    THEN IF p.params[1] = 0 THEN clearCounters
         ELSE [c EXCEPT !.leftForwardTicks = 0]
    ELSE c

handleCommandCounters(p, c) ==
    IF p.command = "COMMAND_CLEAR_STATS" THEN clearCounters ELSE c

(***************************************************************************)
(* handlePacket: only a COMMAND packet has a handler.                      *)
(***************************************************************************)
IsCommand(f) ==
    f.result = "PACKET_OK" /\ f.packet.packetType = "PACKET_TYPE_COMMAND"

\* a variant of handlePacketEvents: handlePacket acknowledges before it dispatches
handlePacketEvents_AckTwice(p, s) ==
    IF p.packetType = "PACKET_TYPE_COMMAND"
    THEN <<sendOK>> \o handleCommandEvents(p, s) ELSE <<>>

handlePacketEvents(p, s) ==
    IF p.packetType = "PACKET_TYPE_COMMAND" THEN handleCommandEvents(p, s) ELSE <<>>

\* a variant of loopEvents: a frame with a bad checksum gets the BAD_PACKET reply
loopEvents_OneErrorCode(f, s) ==
    CASE f.result = "PACKET_OK"           -> handlePacketEvents(f.packet, s)
      [] f.result = "PACKET_BAD"          -> <<sendBadPacket>>
      [] f.result = "PACKET_CHECKSUM_BAD" -> <<sendBadPacket>>
      [] OTHER                            -> <<>>

\* the first part of loop(): readPacket and the dispatch on its result
loopEvents(f, s) ==
    CASE f.result = "PACKET_OK"           -> handlePacketEvents(f.packet, s)
      [] f.result = "PACKET_BAD"          -> <<sendBadPacket>>
      [] f.result = "PACKET_CHECKSUM_BAD" -> <<sendBadChecksum>>
      [] OTHER                            -> <<>>

\* the second part of loop(): the distance target, then the turn target
checkDist(m, c) ==
    IF m.deltaDist > 0
    THEN IF m.dir = "FORWARD"
         THEN IF c.forwardDist > m.newDist
              THEN stop([m EXCEPT !.deltaDist = 0, !.newDist = 0]) ELSE m
         ELSE IF m.dir = "BACKWARD"
         THEN IF c.reverseDist > m.newDist
              THEN stop([m EXCEPT !.deltaDist = 0, !.newDist = 0]) ELSE m
         ELSE IF m.dir = "STOP"
         THEN stop([m EXCEPT !.deltaDist = 0, !.newDist = 0])
         ELSE m
    ELSE m

checkTicks(m, c) ==
    IF m.deltaTicks > 0
    THEN IF m.dir = "LEFT"
         THEN IF c.leftReverseTicksTurns >= m.targetTicks
              THEN stop([m EXCEPT !.deltaTicks = 0, !.targetTicks = 0]) ELSE m
         ELSE IF m.dir = "RIGHT"
         THEN IF c.rightReverseTicksTurns >= m.targetTicks
              THEN stop([m EXCEPT !.deltaTicks = 0, !.targetTicks = 0]) ELSE m
         ELSE IF m.dir = "STOP"
         THEN stop([m EXCEPT !.deltaTicks = 0, !.targetTicks = 0])
         ELSE m
    ELSE m

SetMotion(m) ==
    /\ dir' = m.dir
    /\ deltaDist' = m.deltaDist
    /\ newDist' = m.newDist
    /\ deltaTicks' = m.deltaTicks
    /\ targetTicks' = m.targetTicks

(***************************************************************************)
(* sendStatus: the order in which the counters go into params[0..9].       *)
(***************************************************************************)
\* a variant of StatusOrder: the two forward tick counters change places
StatusOrder_Swapped ==
    <<"rightForwardTicks", "leftForwardTicks", "leftReverseTicks",
      "rightReverseTicks", "leftForwardTicksTurns", "rightForwardTicksTurns",
      "leftReverseTicksTurns", "rightReverseTicksTurns", "forwardDist",
      "reverseDist">>

StatusOrder ==
    <<"leftForwardTicks", "rightForwardTicks", "leftReverseTicks",
      "rightReverseTicks", "leftForwardTicksTurns", "rightForwardTicksTurns",
      "leftReverseTicksTurns", "rightReverseTicksTurns", "forwardDist",
      "reverseDist">>

statusPacket(params) == Packet("PACKET_TYPE_RESPONSE", "RESP_STATUS", params)

(***************************************************************************)
(* The device program: setup(), then loop() for ever, with the encoder     *)
(* interrupts enabled from the end of setup().                             *)
(***************************************************************************)
Init ==
    /\ pc = "setup"
    /\ dir = "STOP"
    /\ cnt = [n \in Counters |-> 0]
    /\ deltaDist = 0 /\ newDist = 0 /\ deltaTicks = 0 /\ targetTicks = 0
    /\ recv = NoFrame
    /\ out = <<>>
    /\ stat = <<>>
    /\ snap = <<>>
    /\ exit = 0
    /\ rx = <<>>
    /\ ticks = 0
    /\ ClientIdle
    /\ MainIdle
    /\ SerialIdle

\* setup(): initializeState clears the counters; waitForHello is not called
Setup ==
    /\ pc = "setup"
    /\ cnt' = clearCounters
    /\ pc' = "read"
    /\ UNCHANGED <<dir, deltaDist, newDist, deltaTicks, targetTicks,
                   recv, out, stat, snap, exit, rx, ticks>>
    /\ UNCHANGED <<cvars, mvars, svars>>

\* loop(), first part, for a readPacket result drawn from F
LoopReadFrom(F) ==
    /\ pc = "read"
    /\ \E f \in F : \E s \in SensorInputs(f) :
          LET getStats == IsCommand(f) /\ f.packet.command = "COMMAND_GET_STATS"
          IN  /\ recv' = f
              /\ out' = loopEvents(f, s)
              /\ SetMotion(IF IsCommand(f)
                           THEN handleCommandMotion(f.packet, Motion, cnt)
                           ELSE Motion)
              /\ cnt' = IF IsCommand(f)
                        THEN handleCommandCounters(f.packet, cnt) ELSE cnt
              /\ snap' = IF getStats THEN cnt ELSE <<>>
              /\ pc' = IF getStats THEN "status" ELSE "check"
    /\ stat' = <<>>
    /\ UNCHANGED <<exit, rx, ticks>>
    /\ UNCHANGED <<cvars, mvars, svars>>

\* loop(), first part: one readPacket and what its result leads to
LoopRead == LoopReadFrom(Frames)

\* sendStatus: statusPacket.params[i] = <counter i>, one assignment at a time
StatusCopy ==
    /\ pc = "status"
    /\ Len(stat) < Len(StatusOrder)
    /\ stat' = Append(stat, cnt[StatusOrder[Len(stat) + 1]])
    /\ UNCHANGED <<pc, dir, cnt, deltaDist, newDist, deltaTicks, targetTicks,
                   recv, out, snap, exit, rx, ticks>>
    /\ UNCHANGED <<cvars, mvars, svars>>

\* sendStatus: sendResponse(&statusPacket)
StatusSend ==
    /\ pc = "status"
    /\ Len(stat) = Len(StatusOrder)
    /\ out' = Append(out, Send(statusPacket(stat)))
    /\ pc' = "check"
    /\ UNCHANGED <<dir, cnt, deltaDist, newDist, deltaTicks, targetTicks,
                   recv, stat, snap, exit, rx, ticks>>
    /\ UNCHANGED <<cvars, mvars, svars>>

\* loop(), second part: stop when a target is reached; then loop() returns
LoopCheck ==
    /\ pc = "check"
    /\ SetMotion(checkTicks(checkDist(Motion, cnt), cnt))
    /\ recv' = NoFrame
    /\ out' = <<>>
    /\ stat' = <<>>
    /\ snap' = <<>>
    /\ pc' = "read"
    /\ UNCHANGED <<cnt, exit, rx, ticks>>
    /\ UNCHANGED <<cvars, mvars, svars>>

InterruptsEnabled == pc \in {"read", "status", "check"}

\* ISR(INT3_vect)
LeftTick ==
    /\ InterruptsEnabled
    /\ ticks < MaxTicks
    /\ cnt' = leftISR(cnt, dir)
    /\ ticks' = ticks + 1
    /\ UNCHANGED <<pc, dir, deltaDist, newDist, deltaTicks, targetTicks,
                   recv, out, stat, snap, exit, rx>>
    /\ UNCHANGED <<cvars, mvars, svars>>

\* ISR(INT2_vect)
RightTick ==
    /\ InterruptsEnabled
    /\ ticks < MaxTicks
    /\ cnt' = rightISR(cnt, dir)
    /\ ticks' = ticks + 1
    /\ UNCHANGED <<pc, dir, deltaDist, newDist, deltaTicks, targetTicks,
                   recv, out, stat, snap, exit, rx>>
    /\ UNCHANGED <<cvars, mvars, svars>>

Next == Setup \/ LoopRead \/ StatusCopy \/ StatusSend \/ LoopCheck
        \/ LeftTick \/ RightTick

Spec == Init /\ [][Next]_vars

(***************************************************************************)
(* The main loop under turn commands: the loop runs for ever and the       *)
(* encoders tick while they can.                                           *)
(***************************************************************************)
\* what readPacket returns in this scenario: nothing, a turn by a small or
\* a larger angle, a forward command, a stop command
TurnFrames ==
    {IncompleteFrame}
    \cup {Frame("PACKET_OK", Packet("PACKET_TYPE_COMMAND", c, <<a, MovePower>>)) :
            c \in {"COMMAND_TURN_LEFT", "COMMAND_TURN_RIGHT"},
            a \in {SmallAng, TurnAng}}
    \cup {Frame("PACKET_OK", Packet("PACKET_TYPE_COMMAND", "COMMAND_FORWARD",
                                    <<MoveDist, MovePower>>)),
          Frame("PACKET_OK", Packet("PACKET_TYPE_COMMAND", "COMMAND_STOP", <<0, 0>>))}

LoopReadTurn == LoopReadFrom(TurnFrames)

NextTurn == Setup \/ LoopReadTurn \/ LoopCheck \/ LeftTick \/ RightTick

SpecTurn ==
    /\ Init
    /\ [][NextTurn]_vars
    /\ WF_vars(Setup)
    /\ WF_vars(LoopReadTurn)
    /\ WF_vars(LoopCheck)
    /\ WF_vars(LeftTick \/ RightTick)

(***************************************************************************)
(* waitForHello, run on its own: setup() and loop() never call it.         *)
(***************************************************************************)
HelloFrame == Frame("PACKET_OK", Packet("PACKET_TYPE_HELLO", "none", <<>>))

\* the frames a peer may send while the device waits for HELLO
HelloFrames ==
    {IncompleteFrame} \cup ErrorFrames \cup OtherFrames
    \cup {Frame("PACKET_OK", Packet("PACKET_TYPE_COMMAND", c, <<0, 0>>)) :
            c \in {"COMMAND_STOP", "COMMAND_GET_STATS"}}

\* a variant of waitForHelloEvents: every decoded packet is acknowledged
waitForHelloEvents_OkForAny(f) ==
    IF f.result = "PACKET_OK" THEN <<sendOK>>
    ELSE IF f.result = "PACKET_BAD" THEN <<sendBadPacket>>
    ELSE IF f.result = "PACKET_CHECKSUM_BAD" THEN <<sendBadChecksum>>
    ELSE <<>>

\* one pass of the while(!exit) body after the read: what is sent
waitForHelloEvents(f) ==
    IF f.result = "PACKET_OK"
    THEN IF f.packet.packetType = "PACKET_TYPE_HELLO"
         THEN <<sendOK>> ELSE <<sendBadResponse>>
    ELSE IF f.result = "PACKET_BAD" THEN <<sendBadPacket>>
    ELSE IF f.result = "PACKET_CHECKSUM_BAD" THEN <<sendBadChecksum>>
    ELSE <<>>

\* a variant of waitForHelloExit: any decoded packet ends the loop
waitForHelloExit_AnyPacket(f) ==
    IF f.result = "PACKET_OK" THEN 1 ELSE 0

\* one pass of the while(!exit) body after the read: the new value of exit
waitForHelloExit(f) ==
    IF f.result = "PACKET_OK" /\ f.packet.packetType = "PACKET_TYPE_HELLO"
    THEN 1 ELSE 0

SeqsUpTo(S, n) == UNION {[1..k -> S] : k \in 0..n}

InitHello ==
    /\ pc = "hello"
    /\ dir = "STOP"
    /\ cnt = [n \in Counters |-> 0]
    /\ deltaDist = 0 /\ newDist = 0 /\ deltaTicks = 0 /\ targetTicks = 0
    /\ recv = NoFrame
    /\ out = <<>>
    /\ stat = <<>>
    /\ snap = <<>>
    /\ exit = 0
    /\ rx \in SeqsUpTo(HelloFrames, MaxRx)
    /\ ticks = 0
    /\ ClientIdle
    /\ MainIdle
    /\ SerialIdle

\* result = readPacket(&hello), and for a result other than
\* PACKET_INCOMPLETE the rest of the while(!exit) body
HelloRead ==
    /\ pc = "hello"
    /\ rx # <<>>
    /\ recv' = Head(rx)
    /\ rx' = Tail(rx)
    /\ out' = out \o waitForHelloEvents(Head(rx))
    /\ exit' = waitForHelloExit(Head(rx))
    /\ pc' = IF exit' = 1 THEN "helloDone" ELSE "hello"
    /\ UNCHANGED <<dir, cnt, deltaDist, newDist, deltaTicks, targetTicks,
                   stat, snap, ticks>>
    /\ UNCHANGED <<cvars, mvars, svars>>

NextHello == HelloRead

\* the loop polls the serial port without pause
SpecHello == InitHello /\ [][NextHello]_vars /\ WF_vars(HelloRead)

(***************************************************************************)
(* Operator console: handleStatus prints the sixteen-slot array copied     *)
(* from the network buffer, one labelled line per slot 0..9.  data is that *)
(* array (data[i+1] is slot i).                                            *)
(***************************************************************************)
StatusLabels ==
    <<"Left Forward Ticks", "Right Forward Ticks", "Left Reverse Ticks",
      "Right Reverse Ticks", "Left Forward Ticks Turns",
      "Right Forward Ticks Turns", "Left Reverse Ticks Turns",
      "Right Reverse Ticks Turns", "Forward Distance", "Reverse Distance">>

handleStatus(data) ==
    [i \in 1..Len(StatusLabels) |-> [label |-> StatusLabels[i], value |-> data[i]]]

(***************************************************************************)
(* Operator console: main() sets networkActive and starts readerThread and *)
(* writerThread, which share networkActive and the TLS connection.         *)
(***************************************************************************)
DEFAULT_DIST == 5
DEFAULT_POWER == 50
TURNING_POWER == 100
DEFAULT_ANG == 90
\* char buffer[10] in writerThread
COMMAND_FRAME_BYTES == 10
\* int32_t data[16] in the handlers
PARAM_SLOTS == 16

allvars == <<vars, cvars, mvars, svars>>

\* the keys with a case that builds a command frame
MoveKeys == {"f", "F", "b", "B"}

TurnKeys == {"l", "L", "r", "R"}

PlainKeys == {"h", "v", "t", "s", "S", "c", "C", "g", "G"}

BoundKeys == MoveKeys \cup TurnKeys \cup PlainKeys

QuitKeys == {"q", "Q"}

\* keys that fall to the default case
OtherKeys == {"x", "u", "m"}

Keys == BoundKeys \cup QuitKeys \cup OtherKeys

\* the four bytes of an int32_t in memory (little-endian host)
Int32Bytes(n) ==
    <<n % 256, (n \div 256) % 256, (n \div 65536) % 256, (n \div 16777216) % 256>>

\* buffer[1] for a bound key
keyCode(k) ==
    CASE k = "v" -> "u"
      [] k = "t" -> "m"
      [] OTHER   -> k

\* a variant of keyParams: turns use the default power
keyParams_TurnDefaultPower(k) ==
    IF k \in MoveKeys THEN <<DEFAULT_DIST, DEFAULT_POWER>>
    ELSE IF k \in TurnKeys THEN <<DEFAULT_ANG, DEFAULT_POWER>>
    ELSE <<0, 0>>

\* params[0], params[1] for a bound key
keyParams(k) ==
    IF k \in MoveKeys THEN <<DEFAULT_DIST, DEFAULT_POWER>>
    ELSE IF k \in TurnKeys THEN <<DEFAULT_ANG, TURNING_POWER>>
    ELSE <<0, 0>>

\* buffer[0] = NET_COMMAND_PACKET; buffer[1] = code; memcpy(&buffer[2], params, 8)
keyFrame(k) ==
    <<"NET_COMMAND_PACKET", keyCode(k)>>
        \o Int32Bytes(keyParams(k)[1]) \o Int32Bytes(keyParams(k)[2])

\* sizeof(buffer) in sendData, where buffer is a const char *: the size of a
\* pointer on the build's target
PointerSizes == {4, 8}

\* what sslWrite can return for n bytes
WriteResults(n) == {n, 0, -1}

\* a variant of sendDataWrites: the flag is not consulted
sendDataWrites_Always(active) == TRUE

\* sendData: if(networkActive)
sendDataWrites(active) == active # 0

\* networkActive = (c > 0), networkActive = (len > 0)
Positive(n) == IF n > 0 THEN 1 ELSE 0

\* the first byte of a frame the bridge sends
NetKinds ==
    {"NET_ERROR_PACKET", "NET_STATUS_PACKET", "NET_COLOUR_PACKET",
     "NET_ULTRASONIC_PACKET", "NET_MESSAGE_PACKET", "NET_COMMAND_PACKET"}

\* handleNetwork: which handler prints, by buffer[0]
handleNetwork(type) ==
    CASE type = "NET_ERROR_PACKET"      -> "handleError"
      [] type = "NET_STATUS_PACKET"     -> "handleStatus"
      [] type = "NET_COLOUR_PACKET"     -> "handleColour"
      [] type = "NET_ULTRASONIC_PACKET" -> "handleUltrasonic"
      [] type = "NET_MESSAGE_PACKET"    -> "handleMessage"
      [] type = "NET_COMMAND_PACKET"    -> "handleCommand"
      [] OTHER                          -> "none"

\* byte counts a successful sslRead can return: one byte, or a whole frame
\* of kind byte and sixteen int32_t
ReadLengths == {1, 1 + 4 * PARAM_SLOTS}

\* the argument counts main may be started with
ArgCounts == 1..4

\* a variant of mainAccepts: the program name is not counted
mainAccepts_TwoArgs(ac) == ac = 2

\* main: if(ac != 3) is not taken
mainAccepts(ac) == ac = 3

PORT_NUM == 5001
SERVER_NAME == "172.20.10.5"

\* the host and port arguments main may be started with
ArgVectors == {<<SERVER_NAME, <<5, 0, 0, 1>>>>, <<"192.168.1.7", <<8, 0, 8, 0>>>>}

\* atoi on a string of decimal digits
RECURSIVE atoi(_)
atoi(digits) ==
    IF digits = <<>> THEN 0
    ELSE 10 * atoi(SubSeq(digits, 1, Len(digits) - 1)) + digits[Len(digits)]

\* connectToServer: the server name and port it hands to createClient
connectToServer(serverName, portNum) == <<SERVER_NAME, PORT_NUM>>

\* main with a wrong argument count: usage message and exit(-1)
MainUsage ==
    /\ argc = 0
    /\ \E ac \in ArgCounts :
          /\ ~mainAccepts(ac)
          /\ argc' = ac
    /\ usage' = 1
    /\ exitStatus' = {-1}
    /\ UNCHANGED <<av, peer>>
    /\ UNCHANGED cvars
    /\ UNCHANGED <<vars, svars>>

\* the arguments naming the server of this build
BuildArgs == {<<SERVER_NAME, <<5, 0, 0, 1>>>>}

\* main started with host and port arguments from V: networkActive = 1;
\* connectToServer starts the two threads
ClientStartWith(V) ==
    /\ argc = 0
    /\ rpc = "idle" /\ wpc = "idle"
    /\ \E ac \in ArgCounts :
          /\ mainAccepts(ac)
          /\ argc' = ac
    /\ \E a \in V :
          /\ av' = a
          /\ peer' = connectToServer(a[1], atoi(a[2]))
    /\ networkActive' = 1
    /\ rpc' = "start"
    /\ wpc' = "prompt"
    /\ UNCHANGED <<transport, rlen, rbuf, rendered, ch, quit, wbuf, wlen, wc, stopped>>
    /\ UNCHANGED <<usage, exitStatus>>
    /\ UNCHANGED <<vars, svars>>

\* main started to reach the server of this build
ClientStart == ClientStartWith(BuildArgs)

\* main started with any host and port
ClientStartAny == ClientStartWith(ArgVectors)

\* the peer closes the connection
TransportClose ==
    /\ transport = "open"
    /\ rpc # "idle"
    /\ transport' = "closed"
    /\ UNCHANGED <<networkActive, rpc, rlen, rbuf, rendered,
                   wpc, ch, quit, wbuf, wlen, wc, stopped>>
    /\ UNCHANGED <<vars, mvars, svars>>

\* readerThread: while(networkActive)
ReaderWhile ==
    /\ rpc \in {"start", "while"}
    /\ rpc' = IF networkActive # 0 THEN "sslRead" ELSE "exit"
    /\ UNCHANGED <<networkActive, transport, rlen, rbuf, rendered,
                   wpc, ch, quit, wbuf, wlen, wc, stopped>>
    /\ UNCHANGED <<vars, mvars, svars>>

\* readerThread: len = sslRead(conn, buffer, sizeof(buffer))
ReaderRead ==
    /\ rpc = "sslRead"
    /\ \/ /\ transport = "open"
          /\ \E t \in NetKinds, n \in ReadLengths : rbuf' = t /\ rlen' = n
       \/ /\ transport = "open"
          /\ rlen' = -1 /\ rbuf' = rbuf
       \/ /\ transport # "open"
          /\ rlen' \in {0, -1} /\ rbuf' = rbuf
    /\ rendered' = "none"
    /\ rpc' = "assign"
    /\ UNCHANGED <<networkActive, transport, wpc, ch, quit, wbuf, wlen, wc, stopped>>
    /\ UNCHANGED <<vars, mvars, svars>>

\* readerThread: networkActive = (len > 0)
ReaderAssign ==
    /\ rpc = "assign"
    /\ networkActive' = Positive(rlen)
    /\ rpc' = "if"
    /\ UNCHANGED <<transport, rlen, rbuf, rendered, wpc, ch, quit, wbuf, wlen, wc, stopped>>
    /\ UNCHANGED <<vars, mvars, svars>>

\* readerThread: if(networkActive) handleNetwork(buffer, len); a buffer never
\* written by a read holds any byte
ReaderIf ==
    /\ rpc = "if"
    /\ IF networkActive # 0
       THEN \E t \in (IF rbuf = "none" THEN NetKinds ELSE {rbuf}) :
                rendered' = handleNetwork(t)
       ELSE rendered' = rendered
    /\ rpc' = "while"
    /\ UNCHANGED <<networkActive, transport, rlen, rbuf, wpc, ch, quit, wbuf, wlen, wc, stopped>>
    /\ UNCHANGED <<vars, mvars, svars>>

\* readerThread: stopClient(); EXIT_THREAD(conn)
ReaderExit ==
    /\ rpc = "exit"
    /\ stopped' = stopped \cup {"reader"}
    /\ rpc' = "done"
    /\ UNCHANGED <<networkActive, transport, rlen, rbuf, rendered,
                   wpc, ch, quit, wbuf, wlen, wc>>
    /\ UNCHANGED <<vars, mvars, svars>>

\* writerThread: scanf("%c", &ch) and the switch on ch
WriterKey ==
    /\ wpc = "prompt"
    /\ \E k \in Keys :
          /\ ch' = k
          /\ wbuf' = IF k \in BoundKeys THEN keyFrame(k) ELSE <<>>
          /\ quit' = IF k \in QuitKeys THEN 1 ELSE quit
          /\ wpc' = IF k \in BoundKeys THEN "sendData"
                    ELSE IF k \in QuitKeys THEN "exit" ELSE "prompt"
    /\ wlen' = 0
    /\ wc' = 0
    /\ UNCHANGED <<networkActive, transport, rpc, rlen, rbuf, rendered, stopped>>
    /\ UNCHANGED <<vars, mvars, svars>>

\* sendData: if(networkActive)
WriterCheck ==
    /\ wpc = "sendData"
    /\ wpc' = IF sendDataWrites(networkActive) THEN "sslWrite" ELSE "prompt"
    /\ UNCHANGED <<networkActive, transport, rpc, rlen, rbuf, rendered,
                   ch, quit, wbuf, wlen, wc, stopped>>
    /\ UNCHANGED <<vars, mvars, svars>>

\* sendData: c = sslWrite(conn, buffer, sizeof(buffer)); after the peer has
\* closed, one more write can still be accepted
WriterWrite ==
    /\ wpc = "sslWrite"
    /\ \E n \in PointerSizes :
          /\ wlen' = n
          /\ \/ transport = "open" /\ wc' \in WriteResults(n) /\ transport' = transport
             \/ transport = "closed" /\ wc' = n /\ transport' = "reset"
             \/ transport # "open" /\ wc' \in {0, -1} /\ transport' = transport
    /\ wpc' = "assign"
    /\ UNCHANGED <<networkActive, rpc, rlen, rbuf, rendered, ch, quit, wbuf, stopped>>
    /\ UNCHANGED <<vars, mvars, svars>>

\* sendData: networkActive = (c > 0)
WriterAssign ==
    /\ wpc = "assign"
    /\ networkActive' = Positive(wc)
    /\ wpc' = "prompt"
    /\ UNCHANGED <<transport, rpc, rlen, rbuf, rendered, ch, quit, wbuf, wlen, wc, stopped>>
    /\ UNCHANGED <<vars, mvars, svars>>

\* writerThread: stopClient(); EXIT_THREAD(conn)
WriterExit ==
    /\ wpc = "exit"
    /\ stopped' = stopped \cup {"writer"}
    /\ wpc' = "done"
    /\ UNCHANGED <<networkActive, transport, rpc, rlen, rbuf, rendered,
                   ch, quit, wbuf, wlen, wc>>
    /\ UNCHANGED <<vars, mvars, svars>>

ReaderStep == ReaderWhile \/ ReaderRead \/ ReaderAssign \/ ReaderIf \/ ReaderExit

WriterStep == WriterCheck \/ WriterWrite \/ WriterAssign \/ WriterExit

NextClient ==
    MainUsage \/ ClientStart \/ TransportClose
    \/ ReaderWhile \/ ReaderRead \/ ReaderAssign \/ ReaderIf \/ ReaderExit
    \/ WriterKey \/ WriterCheck \/ WriterWrite \/ WriterAssign \/ WriterExit

\* both threads are scheduled, a read returns once the peer has sent or
\* closed, and the operator keeps typing
SpecClient ==
    /\ Init
    /\ [][NextClient]_allvars
    /\ WF_allvars(MainUsage \/ ClientStart)
    /\ WF_allvars(ReaderStep)
    /\ WF_allvars(WriterStep)
    /\ WF_allvars(WriterKey)

\* the console started with any host and port arguments
NextConnect ==
    MainUsage \/ ClientStartAny \/ TransportClose
    \/ ReaderWhile \/ ReaderRead \/ ReaderAssign \/ ReaderIf \/ ReaderExit
    \/ WriterKey \/ WriterCheck \/ WriterWrite \/ WriterAssign \/ WriterExit

SpecConnect == Init /\ [][NextConnect]_allvars

(***************************************************************************)
(* The serial link of the device: sendResponse serializes a packet and     *)
(* writes the frame; readPacket reads what the port holds and hands it to  *)
(* deserialize.  serialize and deserialize belong to the serialization     *)
(* library, which is modelled from the wire format: kind, code, the        *)
(* parameters as 4-byte integers, the text, and a check byte over the      *)
(* rest; deserialize accumulates bytes until a whole frame is there.       *)
(* The frame is scaled down to WireParams parameters and one byte of text. *)
(***************************************************************************)
WireParams == 1      \* parameter slots of a frame in the model
MaxSent == 2         \* packets handed to sendResponse in one run

\* the frame size: kind, code, parameters, text, check byte
PACKET_SIZE == 2 + 4 * WireParams + 1 + 1

TPacket(t, c, q, d) == [packetType |-> t, command |-> c, params |-> q, data |-> d]

\* TPacketType, in the order of the enumeration
KindOrder ==
    <<"PACKET_TYPE_COMMAND", "PACKET_TYPE_RESPONSE", "PACKET_TYPE_ERROR",
      "PACKET_TYPE_MESSAGE", "PACKET_TYPE_HELLO">>

KindByte(t) == CHOOSE i \in 1..Len(KindOrder) : KindOrder[i] = t

\* the packets the model puts on the wire: a command and a response, with
\* parameter slot i holding v + i and one letter of text
WirePackets ==
    {TPacket(k[1], k[2], [i \in 1..WireParams |-> k[3] + i], <<65>>) :
        k \in {<<"PACKET_TYPE_COMMAND", 1, 300>>, <<"PACKET_TYPE_RESPONSE", 0, 0>>}}

RECURSIVE ParamBytes(_)
ParamBytes(q) ==
    IF q = <<>> THEN <<>> ELSE Int32Bytes(Head(q)) \o ParamBytes(Tail(q))

\* the int32_t stored at bytes i..i+3
Int32At(b, i) ==
    b[i] + 256 * b[i + 1] + 65536 * b[i + 2] + 16777216 * b[i + 3]

RECURSIVE SumBytes(_)
SumBytes(b) == IF b = <<>> THEN 0 ELSE (Head(b) + SumBytes(Tail(b))) % 256

\* the check value over the rest of the frame
checksum(b) == SumBytes(b)

\* serialize: the frame of a packet
serialize(pkt) ==
    LET body == <<KindByte(pkt.packetType), pkt.command>>
                    \o ParamBytes(pkt.params) \o pkt.data
    IN  Append(body, checksum(body))

\* deserialize, once PACKET_SIZE bytes are assembled: the result and the packet
decodeFrame(b) ==
    LET body == SubSeq(b, 1, PACKET_SIZE - 1)
    IN  IF checksum(body) # b[PACKET_SIZE]
        THEN [result |-> "PACKET_CHECKSUM_BAD", packet |-> <<>>]
        ELSE IF b[1] \notin 1..Len(KindOrder)
        THEN [result |-> "PACKET_BAD", packet |-> <<>>]
        ELSE [result |-> "PACKET_OK",
              packet |-> TPacket(KindOrder[b[1]], b[2],
                                 [i \in 1..WireParams |-> Int32At(b, 4 * i - 1)],
                                 SubSeq(b, 3 + 4 * WireParams, PACKET_SIZE - 1))]

\* deserialize(buffer, len, packet) with a bytes assembled so far: the
\* result, the packet, and the bytes kept for the next call
deserialize(a, buffer) ==
    LET all == a \o buffer
    IN  IF Len(all) < PACKET_SIZE
        THEN [result |-> "PACKET_INCOMPLETE", packet |-> <<>>, acc |-> all]
        ELSE LET d == decodeFrame(SubSeq(all, 1, PACKET_SIZE))
             IN  [result |-> d.result, packet |-> d.packet,
                  acc |-> SubSeq(all, PACKET_SIZE + 1, Len(all))]

\* a variant of sendResponseBytes: the last byte of the frame is not written
sendResponseBytes_OneShort(pkt) ==
    SubSeq(serialize(pkt), 1, Len(serialize(pkt)) - 1)

\* sendResponse: len = serialize(buffer, packet, sizeof(TPacket));
\* writeSerial(buffer, len)
sendResponseBytes(pkt) == SubSeq(serialize(pkt), 1, Len(serialize(pkt)))

\* readSerial: every available byte is stored, count is their number
readSerial(avail) == [count |-> Len(avail), buffer |-> avail]

\* a variant of readPacketDecodes: a read of less than a frame is dropped
readPacketDecodes_WholeFrameOnly(len) == len >= PACKET_SIZE

\* readPacket: if(len == 0) return PACKET_INCOMPLETE; else deserialize
readPacketDecodes(len) == len # 0

\* readPacket on a port holding avail, with a assembled so far
readPacket(a, avail) ==
    LET r == readSerial(avail)
    IN  IF readPacketDecodes(r.count)
        THEN deserialize(a, r.buffer)
        ELSE [result |-> "PACKET_INCOMPLETE", packet |-> <<>>, acc |-> a]

Results == {"PACKET_OK", "PACKET_BAD", "PACKET_CHECKSUM_BAD", "PACKET_INCOMPLETE"}

\* sendResponse(&packet)
SendResponse ==
    /\ Len(sent) < MaxSent
    /\ \E pkt \in WirePackets :
          /\ sent' = Append(sent, pkt)
          /\ wire' = wire \o sendResponseBytes(pkt)
    /\ UNCHANGED <<serial, stored, acc, got, res>>
    /\ UNCHANGED <<vars, cvars, mvars>>

\* the UART receives one byte
ByteArrives ==
    /\ wire # <<>>
    /\ serial' = Append(serial, Head(wire))
    /\ wire' = Tail(wire)
    /\ UNCHANGED <<stored, acc, sent, got, res>>
    /\ UNCHANGED <<vars, cvars, mvars>>

\* readPacket(&packet); storing more than PACKET_SIZE bytes writes past the
\* end of readPacket's buffer, after which any result may come back
ReadPacket ==
    /\ stored' = readSerial(serial).count
    /\ serial' = <<>>
    /\ IF stored' <= PACKET_SIZE
       THEN LET r == readPacket(acc, serial)
            IN  /\ res' = r.result
                /\ acc' = r.acc
                /\ got' = IF r.result = "PACKET_OK" THEN Append(got, r.packet) ELSE got
       ELSE /\ res' \in Results
            /\ acc' = <<>>
            /\ \/ res' = "PACKET_OK" /\ \E pkt \in WirePackets : got' = Append(got, pkt)
               \/ res' # "PACKET_OK" /\ got' = got
    /\ UNCHANGED <<wire, sent>>
    /\ UNCHANGED <<vars, cvars, mvars>>

NextSerial == SendResponse \/ ByteArrives \/ ReadPacket

SpecSerial == Init /\ [][NextSerial]_allvars

\* what each key is for: the prompt string of writerThread and the comments
\* on its cases; 't' sends 'm', the code of the deliver operation
keyOperation(k) ==
    CASE k \in {"f", "F"} -> "forward"
      [] k \in {"b", "B"} -> "reverse"
      [] k \in {"l", "L"} -> "turn-left"
      [] k \in {"r", "R"} -> "turn-right"
      [] k \in {"s", "S"} -> "stop"
      [] k \in {"c", "C"} -> "clear-stats"
      [] k \in {"g", "G"} -> "get-stats"
      [] k = "h"          -> "query-color"
      [] k = "v"          -> "query-distance"
      [] k = "t"          -> "deliver"
      [] k \in {"q", "Q"} -> "quit"
      [] OTHER            -> "none"

(***************************************************************************)
(* Notions the claims use.                                                 *)
(***************************************************************************)
\* the first part of a loop() iteration is over and its frame is in recv
Handled == pc \in {"status", "check"}

\* handlePacket (and sendStatus, if called) has returned
Dispatched == pc = "check"

Sends(events) == SelectSeq(events, LAMBDA e : e.ev = "send")

Calls(events) == SelectSeq(events, LAMBDA e : e.ev = "call")

Code(e) == <<e.pkt.packetType, e.pkt.command>>

Codes(events) == [i \in 1..Len(events) |-> Code(events[i])]

Names(events) == [i \in 1..Len(events) |-> events[i].fn]

Count(events, e) == Cardinality({i \in 1..Len(events) : events[i] = e})

RecvCommand(c) == IsCommand(recv) /\ recv.packet.command = c

(***************************************************************************)
(* C1: no COMMAND packet is dispatched (no OK acknowledgment sent, no      *)
(* collaborator called) before the handshake has completed, that is        *)
(* before waitForHello has seen HELLO, answered OK and set exit.           *)
(***************************************************************************)
C1_NoDispatchBeforeHandshake ==
    (Handled /\ IsCommand(recv) /\ (Count(out, sendOK) > 0 \/ Calls(out) # <<>>))
        => exit = 1

(***************************************************************************)
(* C2: a well-formed HELLO sent to the started device is answered with OK  *)
(* and the session is established.                                         *)
(***************************************************************************)
C2_HelloAnswered ==
    (Dispatched /\ recv = HelloFrame) => (out = <<sendOK>> /\ exit = 1)

(***************************************************************************)
(* C3: in waitForHello, a HELLO that arrives after any number of other     *)
(* frames ends the loop; over the whole handshake exactly one OK is sent,  *)
(* and it is the answer to that HELLO.                                     *)
(***************************************************************************)
HelloQueued == \E i \in 1..Len(rx) : rx[i] = HelloFrame

C3_HandshakeLiveness ==
    /\ [](exit = 0 => Count(out, sendOK) = 0)
    /\ [](exit = 1 => /\ Count(out, sendOK) = 1
                      /\ out[Len(out)] = sendOK
                      /\ recv = HelloFrame
                      /\ pc = "helloDone")
    /\ []((pc = "hello" /\ HelloQueued) => <>(exit = 1))

C3_Witness ==
    /\ exit = 1
    /\ Len(out) = MaxRx
    /\ out[1] = sendBadResponse

(***************************************************************************)
(* C4: while waitForHello awaits HELLO, a frame read to a result other     *)
(* than incomplete gets exactly one error reply and the loop goes on:      *)
(* BAD_RESPONSE for a decoded non-HELLO packet, BAD_CHECKSUM for an        *)
(* integrity failure, BAD_PACKET for a decode failure; an incomplete read  *)
(* gets no reply.                                                          *)
(***************************************************************************)
ErrorReply(code) == Send(Packet("PACKET_TYPE_ERROR", code, <<>>))

C4_HelloErrorReplies ==
    [][(pc = "hello" /\ rx # <<>> /\ Head(rx) # HelloFrame) =>
          /\ exit' = 0 /\ pc' = "hello"
          /\ out' = out \o
                (CASE Head(rx).result = "PACKET_OK" -> <<ErrorReply("RESP_BAD_RESPONSE")>>
                   [] Head(rx).result = "PACKET_CHECKSUM_BAD" ->
                                            <<ErrorReply("RESP_BAD_CHECKSUM")>>
                   [] Head(rx).result = "PACKET_BAD" -> <<ErrorReply("RESP_BAD_PACKET")>>
                   [] Head(rx).result = "PACKET_INCOMPLETE" -> <<>>)]_vars

C4_Witness ==
    /\ pc = "hello" /\ exit = 0
    /\ recv = IncompleteFrame
    /\ out = <<ErrorReply("RESP_BAD_CHECKSUM"), ErrorReply("RESP_BAD_PACKET")>>

(***************************************************************************)
(* C5: for every defined command code the OK acknowledgment comes first:   *)
(* before the collaborator is called and before any RESPONSE packet.       *)
(***************************************************************************)
C5_OkFirst ==
    (Handled /\ IsCommand(recv) /\ recv.packet.command \in CommandCodes) =>
        /\ Len(out) >= 2
        /\ out[1] = sendOK
        /\ \A i \in 2..Len(out) : out[i] # sendOK

C5_Witness ==
    /\ Dispatched /\ RecvCommand("COMMAND_ULTRASONIC")
    /\ Len(out) = 3

(***************************************************************************)
(* C6: each of the twelve defined command codes calls its own collaborator *)
(* and no other; every other code yields a BAD_COMMAND error packet.       *)
(***************************************************************************)
Collaborator(c) ==
    CASE c = "COMMAND_FORWARD"     -> "forward"
      [] c = "COMMAND_REVERSE"     -> "reverse"
      [] c = "COMMAND_TURN_LEFT"   -> "left"
      [] c = "COMMAND_TURN_RIGHT"  -> "right"
      [] c = "COMMAND_STOP"        -> "stop"
      [] c = "COMMAND_GET_STATS"   -> "sendStatus"
      [] c = "COMMAND_CLEAR_STATS" -> "clearOneCounter"
      [] c = "COMMAND_GRAB"        -> "grab"
      [] c = "COMMAND_RELEASE"     -> "release_arm"
      [] c = "COMMAND_MED"         -> "medpack"
      [] c = "COMMAND_COLOUR"      -> "readColour"
      [] c = "COMMAND_ULTRASONIC"  -> "readUltrasonic"

C6_DispatcherTotality ==
    /\ Cardinality(CommandCodes) = 12
    /\ (Handled /\ IsCommand(recv)) =>
          IF recv.packet.command \in CommandCodes
          THEN Names(Calls(out)) = <<Collaborator(recv.packet.command)>>
          ELSE Codes(Sends(out)) = <<<<"PACKET_TYPE_ERROR", "RESP_BAD_COMMAND">>>>

C6_Witness ==
    /\ Dispatched /\ RecvCommand("COMMAND_MED")
    /\ Names(Calls(out)) = <<"medpack">>

(***************************************************************************)
(* C7: a COMMAND packet with an unrecognized code does nothing: exactly    *)
(* one ERROR(BAD_COMMAND) packet, no OK, no collaborator call, direction,  *)
(* motion targets and counters unchanged, and the loop goes on.            *)
(***************************************************************************)
C7_BadCommandNoAction ==
    [][(pc = "read" /\ IsCommand(recv') /\ recv'.packet.command \notin CommandCodes) =>
          /\ out' = <<ErrorReply("RESP_BAD_COMMAND")>>
          /\ pc' = "check"
          /\ UNCHANGED <<dir, deltaDist, newDist, deltaTicks, targetTicks, cnt>>]_vars

C7_Witness ==
    /\ Dispatched /\ RecvCommand("UNDEFINED_CODE_A")
    /\ dir = "FORWARD" /\ deltaDist = MoveDist
    /\ cnt.leftForwardTicks > 0

(***************************************************************************)
(* C8: a query command emits OK and then exactly one RESPONSE packet whose *)
(* code matches the query; any other defined command emits the OK and no   *)
(* further packet.                                                         *)
(***************************************************************************)
QueryResponse(c) ==
    CASE c = "COMMAND_GET_STATS"  -> <<<<"PACKET_TYPE_RESPONSE", "RESP_STATUS">>>>
      [] c = "COMMAND_COLOUR"     -> <<<<"PACKET_TYPE_RESPONSE", "RESP_COLOUR">>>>
      [] c = "COMMAND_ULTRASONIC" -> <<<<"PACKET_TYPE_RESPONSE", "RESP_ULTRASONIC">>>>
      [] OTHER                    -> <<>>

C8_QueryResponses ==
    (Dispatched /\ IsCommand(recv) /\ recv.packet.command \in CommandCodes) =>
        Codes(Sends(out)) =
            <<<<"PACKET_TYPE_RESPONSE", "RESP_OK">>>> \o QueryResponse(recv.packet.command)

C8_Witness ==
    /\ Dispatched /\ RecvCommand("COMMAND_GET_STATS")
    /\ Len(Sends(out)) = 2

(***************************************************************************)
(* C9: the ten values of a RESPONSE(STATUS) packet are the values the      *)
(* counters had at the moment sendStatus was invoked, also when encoder    *)
(* interrupts fire while sendStatus copies the counters.                   *)
(***************************************************************************)
StatusSent == out[Len(out)].pkt

C9_StatusIsSnapshot ==
    (Dispatched /\ RecvCommand("COMMAND_GET_STATS")) =>
        \A i \in 1..Len(StatusOrder) : StatusSent.params[i] = snap[StatusOrder[i]]

(***************************************************************************)
(* C10: sendStatus writes the ten counters into slots 0..9 in the order    *)
(* leftForwardTicks, rightForwardTicks, leftReverseTicks,                  *)
(* rightReverseTicks, leftForwardTicksTurns, rightForwardTicksTurns,       *)
(* leftReverseTicksTurns, rightReverseTicksTurns, forwardDist,             *)
(* reverseDist, and handleStatus reports slot i under the same meaning.    *)
(***************************************************************************)
WireOrder ==
    <<"leftForwardTicks", "rightForwardTicks", "leftReverseTicks",
      "rightReverseTicks", "leftForwardTicksTurns", "rightForwardTicksTurns",
      "leftReverseTicksTurns", "rightReverseTicksTurns", "forwardDist",
      "reverseDist">>

Meaning(label) ==
    CASE label = "Left Forward Ticks"        -> "leftForwardTicks"
      [] label = "Right Forward Ticks"       -> "rightForwardTicks"
      [] label = "Left Reverse Ticks"        -> "leftReverseTicks"
      [] label = "Right Reverse Ticks"       -> "rightReverseTicks"
      [] label = "Left Forward Ticks Turns"  -> "leftForwardTicksTurns"
      [] label = "Right Forward Ticks Turns" -> "rightForwardTicksTurns"
      [] label = "Left Reverse Ticks Turns"  -> "leftReverseTicksTurns"
      [] label = "Right Reverse Ticks Turns" -> "rightReverseTicksTurns"
      [] label = "Forward Distance"          -> "forwardDist"
      [] label = "Reverse Distance"          -> "reverseDist"

C10_PackingOrder ==
    /\ [][(pc = "status" /\ Len(stat') = Len(stat) + 1) =>
             stat'[Len(stat')] = cnt[WireOrder[Len(stat')]]]_vars
    /\ []((Dispatched /\ RecvCommand("COMMAND_GET_STATS")) =>
             LET report == handleStatus(StatusSent.params)
             IN  /\ StatusSent.params = stat
                 /\ Len(stat) = 10
                 /\ Len(report) = 10
                 /\ \A i \in 1..10 :
                       /\ Meaning(report[i].label) = WireOrder[i]
                       /\ report[i].value = stat[i])

C10_Witness ==
    /\ Dispatched /\ RecvCommand("COMMAND_GET_STATS") /\ snap = cnt
    /\ cnt.leftForwardTicks = 1 /\ cnt.rightForwardTicks = 0
    /\ cnt.forwardDist = 4 /\ cnt.rightReverseTicksTurns = 2

(***************************************************************************)
(* C11: in the main loop a frame that fails the integrity check gets       *)
(* exactly one ERROR(BAD_CHECKSUM) and a frame that fails to decode        *)
(* exactly one ERROR(BAD_PACKET); no handler runs and no state changes;    *)
(* the loop goes on, and a valid command read by a later iteration is      *)
(* acknowledged.                                                           *)
(***************************************************************************)
BadResult(f) == f.result \in {"PACKET_BAD", "PACKET_CHECKSUM_BAD"}

C11_BadFrameReplies ==
    /\ [][(pc = "read" /\ BadResult(recv')) =>
             /\ out' = <<ErrorReply(IF recv'.result = "PACKET_CHECKSUM_BAD"
                                    THEN "RESP_BAD_CHECKSUM" ELSE "RESP_BAD_PACKET")>>
             /\ pc' = "check"
             /\ UNCHANGED <<dir, deltaDist, newDist, deltaTicks, targetTicks, cnt>>]_vars
    /\ [][(pc = "check" /\ pc' # "check") => pc' = "read"]_vars
    /\ [][(pc = "read" /\ IsCommand(recv') /\ recv'.packet.command \in CommandCodes) =>
             out'[1] = sendOK]_vars

C11_Witness ==
    /\ Dispatched /\ recv.result = "PACKET_CHECKSUM_BAD"
    /\ out = <<sendBadChecksum>>
    /\ dir = "BACKWARD" /\ deltaDist = MoveDist /\ cnt.reverseDist > 0

(***************************************************************************)
(* C12: no silent drop: a successfully decoded packet whose kind is not    *)
(* COMMAND, received by the main loop, is answered with an ERROR packet.   *)
(***************************************************************************)
C12_NoSilentDrop ==
    (Dispatched /\ recv.result = "PACKET_OK" /\ ~IsCommand(recv)) =>
        \E i \in 1..Len(out) :
            out[i].ev = "send" /\ out[i].pkt.packetType = "PACKET_TYPE_ERROR"

(***************************************************************************)
(* C13: every packet handed to sendResponse is fully constructed: kind,    *)
(* code and all 16 parameter slots were assigned by the sender.            *)
(***************************************************************************)
FullyConstructed(p) ==
    /\ p.packetType # "none"
    /\ p.command # "none"
    /\ Len(p.params) = PARAM_SLOTS

C13_FullyConstructed ==
    \A i \in 1..Len(out) : out[i].ev = "send" => FullyConstructed(out[i].pkt)


(***************************************************************************)
(* C14: when sendData writes, the whole 10-byte command frame built for    *)
(* the keystroke is handed to the transport, never a truncated one.        *)
(***************************************************************************)
Written == SubSeq(wbuf, 1, wlen)

C14_WholeFrameWritten ==
    wpc = "assign" =>
        /\ wlen = COMMAND_FRAME_BYTES
        /\ Written = wbuf

(***************************************************************************)
(* C15: every console operation (forward, reverse, turn-left, turn-right,  *)
(* stop, clear-stats, get-stats, grab, release, deliver, query-color,      *)
(* query-distance, quit) is triggered by at least one key writerThread     *)
(* accepts.                                                                *)
(***************************************************************************)
Operations ==
    {"forward", "reverse", "turn-left", "turn-right", "stop", "clear-stats",
     "get-stats", "grab", "release", "deliver", "query-color",
     "query-distance", "quit"}

C15_EveryOperationHasKey ==
    wpc = "prompt" =>
        \A op \in Operations :
            \E k \in BoundKeys \cup QuitKeys : keyOperation(k) = op

(***************************************************************************)
(* C16: a keystroke builds the frame the binding table gives: f/F/b/B with *)
(* (5, 50), l/L/r/R with (90, 100), s/S/c/C/g/G/h/v/t with (0, 0); the     *)
(* code byte is the typed key, except v sends 'u' and t sends 'm'; any     *)
(* other key that is not q/Q sends no frame and the loop keeps running.    *)
(***************************************************************************)
ParamAt(buf, i) ==
    buf[i] + 256 * buf[i + 1] + 65536 * buf[i + 2] + 16777216 * buf[i + 3]

Built(code, a, b) ==
    /\ Len(wbuf') = 10
    /\ wbuf'[1] = "NET_COMMAND_PACKET"
    /\ wbuf'[2] = code
    /\ ParamAt(wbuf', 3) = a
    /\ ParamAt(wbuf', 7) = b
    /\ wpc' = "sendData"

C16_KeyBindings ==
    [][WriterKey =>
          /\ ch' \in {"f", "F", "b", "B"} => Built(ch', 5, 50)
          /\ ch' \in {"l", "L", "r", "R"} => Built(ch', 90, 100)
          /\ ch' \in {"s", "S", "c", "C", "g", "G", "h"} => Built(ch', 0, 0)
          /\ ch' = "v" => Built("u", 0, 0)
          /\ ch' = "t" => Built("m", 0, 0)
          /\ ch' \notin {"f", "F", "b", "B", "l", "L", "r", "R", "s", "S", "c",
                         "C", "g", "G", "h", "v", "t", "q", "Q"} =>
                 /\ wbuf' = <<>>
                 /\ wpc' = "prompt"
                 /\ quit' = 0
                 /\ UNCHANGED <<transport, networkActive>>]_allvars

C16_Witness ==
    /\ wpc = "sendData" /\ ch = "l"
    /\ wbuf[2] = "l" /\ ParamAt(wbuf, 3) = 90 /\ ParamAt(wbuf, 7) = 100

C18_QuitClearsFlag ==
    (wpc = "done" /\ quit = 1) => networkActive = 0

(***************************************************************************)
(* C19: after a read that returns zero or an error the reader sets the     *)
(* flag inactive, renders nothing, leaves its loop, and calls stopClient   *)
(* before it exits.                                                        *)
(***************************************************************************)
C19_FailedReadEndsReader ==
    /\ [][(rpc = "assign" /\ rpc' # "assign" /\ rlen <= 0) =>
             networkActive' = 0]_allvars
    /\ [][(rpc = "if" /\ rpc' # "if" /\ rlen <= 0) => rendered' = "none"]_allvars
    /\ [][(rpc = "while" /\ rpc' # "while" /\ rlen <= 0) => rpc' = "exit"]_allvars
    /\ [][(rpc # "done" /\ rpc' = "done") => "reader" \in stopped']_allvars

(***************************************************************************)
(* C20: once the transport has closed, both threads eventually terminate:  *)
(* the reader exits and the writer exits too, without a quit key.          *)
(***************************************************************************)
C20_BothTerminate ==
    (transport # "open") ~> (rpc = "done" /\ wpc = "done")


(***************************************************************************)
(* C21: the reader renders a buffer only when the read delivered a whole   *)
(* frame: a short read is never rendered as a status, colour, distance,    *)
(* message or error report.                                                *)
(***************************************************************************)
Reports ==
    {"handleError", "handleStatus", "handleColour", "handleUltrasonic",
     "handleMessage"}

C21_OnlyCompleteFramesRendered ==
    rendered \in Reports => rlen >= 1 + 4 * PARAM_SLOTS

(***************************************************************************)
(* C26: started with an argument count other than 3, main prints the usage *)
(* message and exits with a non-zero status; the flag is never set active  *)
(* and no connection is attempted.                                         *)
(***************************************************************************)
C26_UsageExit ==
    (argc # 0 /\ argc # 3) =>
        /\ usage = 1
        /\ exitStatus # {} /\ 0 \notin exitStatus
        /\ networkActive = 0
        /\ rpc = "idle" /\ wpc = "idle"
        /\ transport = "open" /\ stopped = {}

C26_Witness ==
    argc = 2 /\ exitStatus = {-1} /\ usage = 1

(***************************************************************************)
(* C27: once a relay thread has set networkActive to 0 it is never set     *)
(* back to 1, under every interleaving of the two threads.                 *)
(***************************************************************************)
C27_FlagMonotonic ==
    [][(rpc # "idle" /\ networkActive = 0) => networkActive' = 0]_allvars

(***************************************************************************)
(* C28: whenever readerThread invokes handleNetwork(buffer, len), the read *)
(* that produced len returned a positive length.                           *)
(***************************************************************************)
C28_RenderOnlyPositiveRead ==
    [][(rpc = "if" /\ rpc' = "while" /\ networkActive # 0) => rlen > 0]_allvars


(***************************************************************************)
(* C22: commands are processed one at a time and answered in order: a new  *)
(* frame is taken only when everything emitted for the previous one has    *)
(* been sent, replies are only ever appended, and each command gets        *)
(* exactly one acknowledgement (OK or ERROR) and exactly the data          *)
(* responses it asks for, none lost and none duplicated.                   *)
(***************************************************************************)
IsAck(e) ==
    /\ e.ev = "send"
    /\ \/ e.pkt.packetType = "PACKET_TYPE_ERROR"
       \/ e.pkt.packetType = "PACKET_TYPE_RESPONSE" /\ e.pkt.command = "RESP_OK"

IsData(e) ==
    /\ e.ev = "send"
    /\ e.pkt.packetType = "PACKET_TYPE_RESPONSE" /\ e.pkt.command # "RESP_OK"

Queries == {"COMMAND_GET_STATS", "COMMAND_COLOUR", "COMMAND_ULTRASONIC"}

C22_OneAtATimeInOrder ==
    /\ [][(recv' # recv /\ recv' # NoFrame) =>
             (pc = "read" /\ out = <<>> /\ stat = <<>>)]_vars
    /\ [][(out' # out) =>
             \/ pc = "check" /\ out' = <<>>
             \/ pc = "read" /\ out = <<>>
             \/ Len(out') = Len(out) + 1 /\ SubSeq(out', 1, Len(out)) = out]_vars
    /\ []((Dispatched /\ IsCommand(recv)) =>
             /\ Len(SelectSeq(out, IsAck)) = 1
             /\ Len(SelectSeq(out, IsData)) =
                    (IF recv.packet.command \in Queries THEN 1 ELSE 0))

C22_Witness ==
    /\ Dispatched /\ RecvCommand("COMMAND_GET_STATS")
    /\ Len(out) = 3 /\ IsAck(out[1]) /\ IsData(out[3])
    /\ ticks > 0

(***************************************************************************)
(* C23: a movement command with target 0 runs until explicitly stopped:    *)
(* it sets the target 9999999 beyond the current counter, and while the    *)
(* counter is short of that target the direction changes only when a STOP  *)
(* or another movement command is handled.                                 *)
(***************************************************************************)
MoveCommands ==
    {"COMMAND_FORWARD", "COMMAND_REVERSE", "COMMAND_TURN_LEFT", "COMMAND_TURN_RIGHT"}

RunsUnbounded ==
    \/ dir = "FORWARD"  /\ deltaDist = 9999999 /\ cnt.forwardDist < newDist
    \/ dir = "BACKWARD" /\ deltaDist = 9999999 /\ cnt.reverseDist < newDist
    \/ dir = "LEFT"  /\ deltaTicks = 9999999 /\ cnt.leftReverseTicksTurns < targetTicks
    \/ dir = "RIGHT" /\ deltaTicks = 9999999 /\ cnt.rightReverseTicksTurns < targetTicks

C23_ZeroTargetRunsUntilStopped ==
    /\ [][(pc = "read" /\ IsCommand(recv') /\ recv'.packet.command \in MoveCommands
            /\ recv'.packet.params[1] = 0) =>
             LET c == recv'.packet.command
             IN  /\ c = "COMMAND_FORWARD" =>
                       (dir' = "FORWARD" /\ newDist' = cnt.forwardDist + 9999999)
                 /\ c = "COMMAND_REVERSE" =>
                       (dir' = "BACKWARD" /\ newDist' = cnt.reverseDist + 9999999)
                 /\ c = "COMMAND_TURN_LEFT" =>
                       (dir' = "LEFT"
                        /\ targetTicks' = cnt.leftReverseTicksTurns + 9999999)
                 /\ c = "COMMAND_TURN_RIGHT" =>
                       (dir' = "RIGHT"
                        /\ targetTicks' = cnt.rightReverseTicksTurns + 9999999)
                 /\ RunsUnbounded']_vars
    /\ [][(RunsUnbounded /\ dir' # dir) =>
             /\ pc = "read" /\ IsCommand(recv')
             /\ recv'.packet.command \in MoveCommands \cup {"COMMAND_STOP"}]_vars

C23_Witness ==
    /\ pc = "read" /\ dir = "RIGHT" /\ deltaTicks = 9999999
    /\ cnt.rightReverseTicksTurns = MaxTicks
    /\ cnt.rightReverseTicksTurns < targetTicks

(***************************************************************************)
(* C30: an encoder tick increments at most one tick counter, one of the    *)
(* current direction class, and leaves every other tick counter unchanged. *)
(***************************************************************************)
ClassCounters(d) ==
    CASE d = "FORWARD"  -> {"leftForwardTicks", "rightForwardTicks"}
      [] d = "BACKWARD" -> {"leftReverseTicks", "rightReverseTicks"}
      [] d = "LEFT"     -> {"leftReverseTicksTurns", "rightForwardTicksTurns"}
      [] d = "RIGHT"    -> {"leftForwardTicksTurns", "rightReverseTicksTurns"}
      [] OTHER          -> {}

C30_TickBumpsOneCounter ==
    [][(ticks' = ticks + 1) =>
          LET changed == {n \in TickCounters : cnt'[n] # cnt[n]}
          IN  /\ Cardinality(changed) <= 1
              /\ changed \subseteq ClassCounters(dir)
              /\ \A n \in changed : cnt'[n] = cnt[n] + 1]_vars


(***************************************************************************)
(* C24: the bytes of one frame arriving over several reads are             *)
(* accumulated: before the last byte has been read no readPacket returns   *)
(* a packet or an error and the bytes read so far are kept; the read that  *)
(* takes the last byte returns PACKET_OK and the packet that was sent.     *)
(***************************************************************************)
Consumed == PACKET_SIZE - Len(wire) - Len(serial)

C25_RoundTrip ==
    \A i \in 1..Len(sent) :
        LET r == readPacket(<<>>, sendResponseBytes(sent[i]))
        IN  /\ r.result = "PACKET_OK"
            /\ r.packet.packetType = sent[i].packetType
            /\ r.packet.command = sent[i].command
            /\ r.packet.params = sent[i].params
            /\ r.packet.data = sent[i].data

C25_Witness ==
    /\ got # <<>> /\ got[1] = sent[1]
    /\ sent[1].packetType = "PACKET_TYPE_COMMAND" /\ sent[1].params[1] = 301
    /\ stored = PACKET_SIZE

(***************************************************************************)
(* C29: readSerial never stores more than PACKET_SIZE bytes into the       *)
(* buffer readPacket supplies, whatever number of bytes is available.      *)
(***************************************************************************)
C29_ReadWithinBuffer ==
    stored <= PACKET_SIZE


(***************************************************************************)
(* C31: a turn by a non-zero angle stops by itself: once the ticks the     *)
(* turn needs have arrived, and unless another command is handled first,   *)
(* the main loop stops and dir becomes STOP.                               *)
(***************************************************************************)
TurnDue ==
    /\ pc = "read"
    /\ deltaTicks # 9999999
    /\ \/ dir = "LEFT" /\ cnt.leftReverseTicksTurns >= targetTicks
       \/ dir = "RIGHT" /\ cnt.rightReverseTicksTurns >= targetTicks

C31_TurnStopsByItself ==
    TurnDue ~> (dir = "STOP" \/ (pc # "read" /\ IsCommand(recv)))


(***************************************************************************)
(* C32: a forward (reverse) command with distance d > 0 given at distance  *)
(* D is stopped by the first loop iteration that sees the distance at or   *)
(* beyond D + d, and the distance check never stops it below D + d.        *)
(***************************************************************************)
BoundedRun(d) == dir = d /\ deltaDist > 0 /\ deltaDist # 9999999

C32_StopsAtTarget ==
    /\ [][(pc = "check" /\ pc' = "read" /\ BoundedRun("FORWARD")) =>
             (dir' = "STOP" <=> cnt.forwardDist >= newDist)]_vars
    /\ [][(pc = "check" /\ pc' = "read" /\ BoundedRun("BACKWARD")) =>
             (dir' = "STOP" <=> cnt.reverseDist >= newDist)]_vars

(***************************************************************************)
(* C33: at the end of every loop iteration in which dir is STOP no motion  *)
(* target is pending: deltaDist = 0 and deltaTicks = 0.                    *)
(***************************************************************************)
C33_NoTargetWhenStopped ==
    [][(pc = "check" /\ pc' = "read" /\ dir' = "STOP") =>
          (deltaDist' = 0 /\ deltaTicks' = 0)]_vars

C35_ClearStatsKeepsTargets ==
    [][(pc = "read" /\ IsCommand(recv')
        /\ recv'.packet.command = "COMMAND_CLEAR_STATS") =>
          UNCHANGED <<dir, deltaDist, newDist, deltaTicks, targetTicks>>]_vars

C35_Witness ==
    /\ pc = "read" /\ dir = "FORWARD"
    /\ deltaDist = MoveDist /\ newDist > MoveDist
    /\ cnt.forwardDist = 0 /\ cnt.leftForwardTicks = 0
    /\ ticks > 0


(***************************************************************************)
(* C36: the console connects to the host and port given as arguments: the  *)
(* server name and port handed to createClient are av[1] and atoi(av[2]).  *)
(***************************************************************************)
C36_ConnectsToArguments ==
    peer # <<>> => peer = <<av[1], atoi(av[2])>>

====
